---- MODULE Spec2Model ----
(***************************************************************************)
(* Model of the Terabox downloader API (src/api.py): the identifier        *)
(* extractor, the upstream client (listing call and download resolution)   *)
(* and the two data endpoints /api/download and /api/info.                 *)
(*                                                                         *)
(* Python values are tagged records, so that values of different Python    *)
(* types can be told apart and compared.  A Python str is a sequence of    *)
(* characters; a fixed literal of the program or of the upstream (a host   *)
(* prefix, a file name) is kept as one element of that sequence.  Response *)
(* messages, which are only ever built by concatenation, are TLA+ strings. *)
(***************************************************************************)
EXTENDS Integers, Sequences, FiniteSets, TLC

VARIABLES
    pc,            \* position of the request being served
    req,           \* the request: route, method, and its body or query
    url,           \* the url value read by the handler (api.py:170-174)
    surl,          \* the token extracted from url (api.py:36)
    file_data,     \* first entry of the upstream file list (api.py:65)
    calls,         \* upstream calls issued while serving the request, in order
    lresp,         \* what the listing call returned or raised
    dresp,         \* what the download-resolution call returned or raised
    download_url,  \* value returned by _get_download_url (api.py:68)
    resp,          \* the HTTP response: status and JSON body
    prev,          \* history: the previous exchange, when the request is re-sent
    first500        \* history: body of the first HTTP 500 response served

vars == <<pc, req, url, surl, file_data, calls, lresp, dresp, download_url,
          resp, prev, first500>>

----------------------------------------------------------------------------
(* Bounds of the model *)

\* longest url of the extractor check, in pieces of UrlPieces
MaxPieces == 4
\* longest upstream file list
MaxList == 2

----------------------------------------------------------------------------
(* Python values *)

NoneV == [t |-> "None"]
Num(n) == [t |-> "int", n |-> n]
Str(c) == [t |-> "str", c |-> c]
List(l) == [t |-> "list", l |-> l]
Dict(d) == [t |-> "dict", d |-> d]

\* the empty dict literal {}
EmptyDict == Dict(<<>>)

\* Python truth value of v, as tested by `not url`, `if file_list`, `if dlink`
Truthy(v) ==
    CASE v.t = "None" -> FALSE
      [] v.t = "int"  -> v.n # 0
      [] v.t = "str"  -> v.c # <<>>
      [] v.t = "list" -> v.l # <<>>
      [] v.t = "dict" -> DOMAIN v.d # {}

\* type(v).__name__
TypeName(v) == IF v.t = "None" THEN "NoneType" ELSE v.t

\* str(AttributeError) of v.get(...) on a value that is no dict
NoGetText(v) == "'" \o TypeName(v) \o "' object has no attribute 'get'"

\* d.get(k, default) on a dict d
DictGet(v, k, default) == IF k \in DOMAIN v.d THEN v.d[k] ELSE default

RECURSIVE Join(_)
\* the characters of a str as one TLA+ string
Join(c) == IF c = <<>> THEN "" ELSE Head(c) \o Join(Tail(c))

\* str(v) as f-strings format it, as a sequence of characters
Format(v) ==
    CASE v.t = "None" -> <<"None">>
      [] v.t = "int"  -> <<ToString(v.n)>>
      [] v.t = "str"  -> v.c

\* outcome of an operation that may raise
Ok(v) == [ok |-> TRUE, v |-> v]
Raise(text) == [ok |-> FALSE, text |-> text]

----------------------------------------------------------------------------
(* Identifier extractor: extract_surl, api.py:19-31 *)

Letters ==
    {"a","b","c","d","e","f","g","h","i","j","k","l","m",
     "n","o","p","q","r","s","t","u","v","w","x","y","z",
     "A","B","C","D","E","F","G","H","I","J","K","L","M",
     "N","O","P","Q","R","S","T","U","V","W","X","Y","Z"}
Digits == {"0","1","2","3","4","5","6","7","8","9"}

\* the character class [a-zA-Z0-9_-]
TokenChar(ch) == ch \in Letters \cup Digits \cup {"_", "-"}

\* literal prefixes of the three patterns, each followed by ([a-zA-Z0-9_-]+)
PatS == <<"/","s","/">>
PatSurl == <<"s","u","r","l","=">>
PatWap == <<"/","w","a","p","/","s","h","a","r","e","/","f","i","l","e","?",
            "s","u","r","l","=">>

\* variant: surl= tried before /s/
MutPatterns == <<PatSurl, PatS, PatWap>>
\* the list `patterns`, in the order the loop tries them
Patterns == <<PatS, PatSurl, PatWap>>

\* the pattern with literal prefix lit matches s at position i
MatchAt(lit, s, i) ==
    /\ i + Len(lit) <= Len(s)
    /\ \A j \in 1..Len(lit) : s[i + j - 1] = lit[j]
    /\ TokenChar(s[i + Len(lit)])

\* re.search: the leftmost position where the pattern matches, 0 when none
Search(lit, s) ==
    IF \E i \in 1..Len(s) : MatchAt(lit, s, i)
    THEN CHOOSE i \in 1..Len(s) :
            /\ MatchAt(lit, s, i)
            /\ \A j \in 1..(i - 1) : ~MatchAt(lit, s, j)
    ELSE 0

RECURSIVE Run(_, _)
\* the greedy group: the longest run of token characters of s from position i
Run(s, i) ==
    IF i <= Len(s) /\ TokenChar(s[i]) THEN <<s[i]>> \o Run(s, i + 1) ELSE <<>>

\* match.group(1) of the pattern with prefix lit
Group(lit, s) == Run(s, Search(lit, s) + Len(lit))

RECURSIVE TryPatterns(_, _)
\* the for loop over patterns: the first that matches returns its group
TryPatterns(ps, s) ==
    IF ps = <<>> THEN NoneV
    ELSE IF Search(Head(ps), s) # 0 THEN Str(Group(Head(ps), s))
    ELSE TryPatterns(Tail(ps), s)

\* extract_surl(url); re.search raises TypeError when url is no str
extract_surl(u) ==
    IF u.t = "str" THEN Ok(TryPatterns(Patterns, u.c))
    ELSE Raise("expected string or bytes-like object, got '" \o TypeName(u) \o "'")

----------------------------------------------------------------------------
(* Upstream client: get_file_info and _get_download_url, api.py:33-144 *)

\* the envelopes get_file_info returns on failure
InvalidUrl == [success |-> FALSE, message |-> "Invalid Terabox URL"]
NoFiles == [success |-> FALSE, message |-> "No files found in the link"]
FetchFailed == [success |-> FALSE, message |-> "Failed to fetch data from Terabox"]
ApiError(errno) ==
    [success |-> FALSE, message |-> "Terabox API Error: " \o Join(Format(errno))]

\* variant: the exception text is dropped
MutErrorResult(text) == [success |-> FALSE, message |-> "Error"]
\* the except branch of get_file_info, api.py:89-90
ErrorResult(text) == [success |-> FALSE, message |-> "Error: " \o text]

\* data.get('errno') == 0
ErrnoIsZero(data) ==
    LET errno == DictGet(data, "errno", NoneV) IN errno.t = "int" /\ errno.n = 0

\* variant: the last entry instead of the first
MutFirstEntry(file_list) == file_list.l[Len(file_list.l)]
\* file_list[0], api.py:65
FirstEntry(file_list) == file_list.l[1]

\* api.py:58-87 up to the call of _get_download_url: what get_file_info does
\* with the outcome lr of the listing call.  "result": it returns that
\* envelope; "resolve": the list is not empty and it goes on to
\* _get_download_url with the first entry.
AfterListing(lr) ==
    IF ~lr.ok THEN [k |-> "result", result |-> ErrorResult(lr.text)]
    ELSE IF lr.v.status # 200 THEN [k |-> "result", result |-> FetchFailed]
    ELSE IF lr.v.body.k # "json"
         THEN \* response.json() raises; str(e) is the decoder's message
              [k |-> "result", result |-> ErrorResult(lr.v.body.text)]
    ELSE LET data == lr.v.body.v IN
         IF data.t # "dict"
         THEN [k |-> "result", result |-> ErrorResult(NoGetText(data))]
         ELSE IF ~ErrnoIsZero(data)
         THEN [k |-> "result", result |-> ApiError(DictGet(data, "errno", NoneV))]
         ELSE LET file_list == DictGet(data, "list", List(<<>>)) IN
              IF ~Truthy(file_list) THEN [k |-> "result", result |-> NoFiles]
              ELSE [k |-> "resolve", file_data |-> FirstEntry(file_list)]

\* the two constructed links of _get_download_url, api.py:140 and api.py:144
FallbackUrl(fs_id, s) ==
    Str(<<"https://www.terabox.com/share/download?surl=">> \o s.c
        \o <<"&fid_list=[">> \o Format(fs_id) \o <<"]">>)
SharingUrl(s) == Str(<<"https://www.terabox.com/sharing/link?surl=">> \o s.c)

\* variant: the dlink is taken whatever the errno
MutBodyDlink(body) ==
    IF body.k # "json" \/ body.v.t # "dict" THEN NoneV
    ELSE LET dlink == DictGet(body.v, "dlink", Str(<<>>)) IN
         IF Truthy(dlink) THEN dlink ELSE NoneV
\* api.py:129-137: the dlink of a 200 response, None when the body gives none
\* (json() or data.get raising is swallowed by the bare except)
BodyDlink(body) ==
    IF body.k # "json" \/ body.v.t # "dict" THEN NoneV
    ELSE IF ~ErrnoIsZero(body.v) THEN NoneV
    ELSE LET dlink == DictGet(body.v, "dlink", Str(<<>>)) IN
         IF Truthy(dlink) THEN dlink ELSE NoneV

\* api.py:116-144: the value _get_download_url returns for a dict file_data
\* once the download-resolution call has had the outcome dr
get_download_url(fd, s, dr) ==
    IF ~dr.ok THEN SharingUrl(s)
    ELSE IF dr.v.status \in {302, 301}
         THEN DictGet(Dict(dr.v.headers), "Location", Str(<<>>))
    ELSE IF dr.v.status = 200 /\ BodyDlink(dr.v.body) # NoneV
         THEN BodyDlink(dr.v.body)
    ELSE FallbackUrl(DictGet(fd, "fs_id", NoneV), s)

\* api.py:70-81: the success envelope; file_data.get and thumbs.get raise
\* AttributeError on a value that is no dict
BuildResult(fd, dl) ==
    IF fd.t # "dict" THEN Raise(NoGetText(fd))
    ELSE LET thumbs == DictGet(fd, "thumbs", EmptyDict) IN
         IF thumbs.t # "dict" THEN Raise(NoGetText(thumbs))
         ELSE Ok([success |-> TRUE,
                  data |-> [filename |-> DictGet(fd, "server_filename", Str(<<"Unknown">>)),
                            size |-> DictGet(fd, "size", Num(0)),
                            fs_id |-> DictGet(fd, "fs_id", NoneV),
                            download_url |-> dl,
                            thumbnail |-> DictGet(thumbs, "url3", Str(<<>>)),
                            category |-> DictGet(fd, "category", Num(0)),
                            isdir |-> DictGet(fd, "isdir", Num(0))]])

\* api.py:68-90 once download_url is known: the envelope get_file_info returns
get_file_info_result(fd, dl) ==
    LET b == BuildResult(fd, dl) IN IF b.ok THEN b.v ELSE ErrorResult(b.text)

----------------------------------------------------------------------------
(* Endpoint layer: download and info, api.py:166-219 *)

\* api.py:170-174: the url the handler reads.  req.input is the outcome of
\* request.get_json() for a POST and of request.args.get('url') for a GET.
ReadUrl(r) ==
    IF r.method = "POST"
    THEN IF ~r.input.ok THEN Raise(r.input.text)
         ELSE IF r.input.v.t # "dict" THEN Raise(NoGetText(r.input.v))
         ELSE Ok(DictGet(r.input.v, "url", NoneV))
    ELSE r.input

\* api.py:177-180
UrlRequired ==
    [status |-> 400,
     body |-> [success |-> FALSE, message |-> "URL parameter is required"]]

\* api.py:185-189
ServerError(text) ==
    [status |-> 500,
     body |-> [success |-> FALSE, message |-> "Server error: " \o text]]

\* variant: download_url is left in place
MutStripInfo(result) == result
\* api.py:210-211: the info route pops download_url from a successful result
StripInfo(result) ==
    IF result.success /\ "data" \in DOMAIN result
    THEN [result EXCEPT !.data =
            [k \in DOMAIN result.data \ {"download_url"} |-> result.data[k]]]
    ELSE result

\* variant: a failure envelope is answered HTTP 400
MutJsonify(result) ==
    [status |-> IF result.success THEN 200 ELSE 400, body |-> result]
\* return jsonify(result): HTTP 200 with the envelope as its body
Jsonify(result) == [status |-> 200, body |-> result]

\* api.py:182-183 and api.py:207-213: the response for the envelope result
Respond(route, result) ==
    Jsonify(IF route = "info" THEN StripInfo(result) ELSE result)

----------------------------------------------------------------------------
(* Inputs: requests and upstream behaviour *)

\* url strings of the requests: "/s/a?surl=b", "surl=c", and "x/s/" (no token)
ReqUrls ==
    {Str(<<"/","s","/","a","?","s","u","r","l","=","b">>),
     Str(<<"s","u","r","l","=","c">>),
     Str(<<"x","/","s","/">>)}

\* outcomes of request.args.get('url'): no url parameter, ?url=, ?url=<string>
GetInputs == {Ok(NoneV), Ok(Str(<<>>))} \cup {Ok(u) : u \in ReqUrls}

\* outcomes of request.get_json(): it raises on a body that is not announced
\* as JSON (415) or that does not parse (400), and returns the parsed value
\* otherwise: null, a list, and objects without and with a url key
PostInputs ==
    {Raise("415 Unsupported Media Type: Did not attempt to load JSON data because the request Content-Type was not 'application/json'."),
     Raise("400 Bad Request: The browser (or proxy) sent a request that this server could not understand."),
     Ok(NoneV),
     Ok(List(<<>>)),
     Ok(EmptyDict),
     Ok(Dict([link |-> Str(<<"/","s","/","a">>)])),
     Ok(Dict([url |-> NoneV])),
     Ok(Dict([url |-> Str(<<>>)])),
     Ok(Dict([url |-> Num(0)])),
     Ok(Dict([url |-> Num(7)]))}
    \cup {Ok(Dict([url |-> u])) : u \in ReqUrls}

\* pieces the urls of the extractor check are concatenated from
UrlPieces ==
    {PatS, <<"?">> \o PatSurl, PatWap, <<"a">>, <<"B","7">>, <<"_","-">>,
     <<"&">>, <<"/">>, <<"s">>}

RECURSIVE Concat(_)
\* concatenation of a sequence of strings
Concat(ss) == IF ss = <<>> THEN <<>> ELSE Head(ss) \o Concat(Tail(ss))

Routes == {"download", "info"}

Requests ==
    [route : Routes, method : {"GET"}, input : GetInputs]
    \cup [route : Routes, method : {"POST"}, input : PostInputs]

\* entries of the upstream file list: two well-formed records, an empty
\* object, an object whose thumbs is null, and an entry that is no object
Entries ==
    {Dict([server_filename |-> Str(<<"a.mp4">>), size |-> Num(10),
           fs_id |-> Num(111), thumbs |-> Dict([url3 |-> Str(<<"https://thumb/a">>)]),
           category |-> Num(1), isdir |-> Num(0)]),
     Dict([server_filename |-> Str(<<"b">>), size |-> Num(20),
           fs_id |-> Num(222), thumbs |-> EmptyDict, isdir |-> Num(1)]),
     EmptyDict,
     Dict([server_filename |-> Str(<<"c.jpg">>), fs_id |-> Num(333),
           thumbs |-> NoneV]),
     Str(<<"junk">>)}

RECURSIVE SeqsUpTo(_, _)
\* the sequences over S of length at most n
SeqsUpTo(S, n) ==
    IF n = 0 THEN {<<>>}
    ELSE LET shorter == SeqsUpTo(S, n - 1) IN
         shorter \cup {Append(q, x) : q \in shorter, x \in S}

FileLists == {List(l) : l \in SeqsUpTo(Entries, MaxList)}

\* JSON objects of the listing endpoint: errno absent, 0 or 2; list absent or given
ListingObjects ==
    {Dict([errno |-> Num(0)]), Dict([errno |-> Num(2)]), EmptyDict,
     Dict([errno |-> Num(2), list |-> List(<<EmptyDict>>)]),
     Dict([list |-> List(<<EmptyDict>>)])}
    \cup {Dict([errno |-> Num(0), list |-> fl]) : fl \in FileLists}

JsonBody(v) == [k |-> "json", v |-> v]
\* a body response.json() rejects, with the text of the exception it raises
Malformed(text) == [k |-> "malformed", text |-> text]

\* str(e) of the JSONDecodeError for an empty or HTML body, for '{' and for '[1,]'
JsonErrors ==
    {"Expecting value: line 1 column 1 (char 0)",
     "Expecting property name enclosed in double quotes: line 1 column 2 (char 1)",
     "Expecting value: line 1 column 4 (char 3)"}
NotJson == Malformed("Expecting value: line 1 column 1 (char 0)")

\* outcomes of requests.get on the listing endpoint
ListingOutcomes ==
    {Raise("HTTPSConnectionPool(host='www.terabox.com', port=443): Read timed out. (read timeout=30)"),
     Raise("HTTPSConnectionPool(host='www.terabox.com', port=443): Max retries exceeded"),
     Ok([status |-> 404, body |-> NotJson]),
     Ok([status |-> 500, body |-> JsonBody(Dict([errno |-> Num(0), list |-> List(<<EmptyDict>>)]))]),
     Ok([status |-> 200, body |-> JsonBody(NoneV)]),
     Ok([status |-> 200, body |-> JsonBody(List(<<>>))])}
    \cup {Ok([status |-> 200, body |-> Malformed(t)]) : t \in JsonErrors}
    \cup {Ok([status |-> 200, body |-> JsonBody(o)]) : o \in ListingObjects}

Direct == Str(<<"https://example/direct">>)
Dlink == Str(<<"https://d.terabox.com/file/1">>)
NoHeaders == <<>>

\* outcomes of requests.get on the download-resolution endpoint
DownloadOutcomes ==
    {Raise("HTTPSConnectionPool(host='www.terabox.com', port=443): Read timed out. (read timeout=30)"),
     Ok([status |-> 302, headers |-> [Location |-> Direct], body |-> NotJson]),
     Ok([status |-> 302, headers |-> NoHeaders, body |-> NotJson]),
     Ok([status |-> 200, headers |-> NoHeaders,
         body |-> Malformed("Expecting value: line 1 column 4 (char 3)")]),
     Ok([status |-> 301, headers |-> [Location |-> Direct],
         body |-> JsonBody(Dict([errno |-> Num(0), dlink |-> Dlink]))]),
     Ok([status |-> 200, headers |-> [Location |-> Direct], body |-> NotJson]),
     Ok([status |-> 200, headers |-> NoHeaders, body |-> JsonBody(List(<<>>))]),
     Ok([status |-> 200, headers |-> NoHeaders, body |-> JsonBody(EmptyDict)]),
     Ok([status |-> 200, headers |-> NoHeaders, body |-> JsonBody(Dict([errno |-> Num(0)]))]),
     Ok([status |-> 200, headers |-> NoHeaders,
         body |-> JsonBody(Dict([errno |-> Num(0), dlink |-> Str(<<>>)]))]),
     Ok([status |-> 200, headers |-> NoHeaders,
         body |-> JsonBody(Dict([errno |-> Num(0), dlink |-> Dlink]))]),
     Ok([status |-> 200, headers |-> NoHeaders,
         body |-> JsonBody(Dict([errno |-> Num(2), dlink |-> Dlink]))]),
     Ok([status |-> 404, headers |-> NoHeaders,
         body |-> JsonBody(Dict([errno |-> Num(0), dlink |-> Dlink]))])}

----------------------------------------------------------------------------
(* The state machine: one request at a time, split at the upstream calls *)

\* value of a variable the handler has not assigned yet
Unset == [t |-> "unset"]
NoResp == [status |-> 0, body |-> [success |-> FALSE, message |-> ""]]
NoPrev == [set |-> FALSE]
No500 == [set |-> FALSE]

Init ==
    /\ pc = "idle"
    /\ req = [route |-> "download", method |-> "GET", input |-> Ok(NoneV)]
    /\ url = Unset
    /\ surl = Unset
    /\ file_data = Unset
    /\ calls = <<>>
    /\ lresp = Unset
    /\ dresp = Unset
    /\ download_url = Unset
    /\ resp = NoResp
    /\ prev = NoPrev
    /\ first500 = No500

\* the handler returns response r
Return(r) ==
    /\ pc' = "done"
    /\ resp' = r
    /\ first500' = IF r.status = 500 /\ ~first500.set
                  THEN [set |-> TRUE, body |-> r.body] ELSE first500

\* download() / info() from the arrival of request r up to its first upstream
\* call: api.py:169-183 (195-213) and get_file_info up to api.py:56
Handle(r) ==
    /\ req' = r
    /\ file_data' = Unset
    /\ lresp' = Unset
    /\ dresp' = Unset
    /\ download_url' = Unset
    /\ LET u == ReadUrl(r) IN
       IF ~u.ok
       THEN /\ Return(ServerError(u.text))
            /\ url' = Unset /\ surl' = Unset /\ calls' = <<>>
       ELSE IF ~Truthy(u.v)
       THEN /\ Return(UrlRequired)
            /\ url' = u.v /\ surl' = Unset /\ calls' = <<>>
       ELSE LET e == extract_surl(u.v) IN
            IF ~e.ok
            THEN /\ Return(Respond(r.route, ErrorResult(e.text)))
                 /\ url' = u.v /\ surl' = Unset /\ calls' = <<>>
            ELSE IF ~Truthy(e.v)
            THEN \* surl is assigned None at api.py:36 before the test at api.py:37
                 /\ Return(Respond(r.route, InvalidUrl))
                 /\ url' = u.v /\ surl' = e.v /\ calls' = <<>>
            ELSE /\ pc' = "listing"
                 /\ url' = u.v /\ surl' = e.v
                 /\ calls' = <<"listing">>
                 /\ UNCHANGED <<resp, first500>>

\* a request arrives
Request ==
    /\ pc = "idle"
    /\ \E r \in Requests : Handle(r)
    /\ UNCHANGED prev

\* the same request arrives again on the other route; the upstream will
\* answer it as it answered the first (prev records the first exchange)
Resend ==
    /\ pc = "done"
    /\ ~prev.set
    /\ prev' = [set |-> TRUE, req |-> req, lresp |-> lresp, dresp |-> dresp,
                resp |-> resp]
    /\ Handle([req EXCEPT !.route = IF req.route = "info" THEN "download" ELSE "info"])

\* the listing call returns or raises: api.py:56-68, and on to the response
\* unless the download-resolution call is issued (api.py:116)
ListingReply ==
    /\ pc = "listing"
    /\ \E lr \in ListingOutcomes :
         /\ prev.set => lr = prev.lresp
         /\ lresp' = lr
         /\ LET a == AfterListing(lr) IN
            IF a.k = "result"
            THEN /\ Return(Respond(req.route, a.result))
                 /\ UNCHANGED <<file_data, calls, download_url>>
            ELSE IF a.file_data.t # "dict"
            THEN \* file_data.get raises inside _get_download_url (api.py:101,
                 \* 142-144) and again at api.py:73
                 /\ file_data' = a.file_data
                 /\ download_url' = SharingUrl(surl)
                 /\ Return(Respond(req.route, get_file_info_result(a.file_data, SharingUrl(surl))))
                 /\ UNCHANGED calls
            ELSE /\ file_data' = a.file_data
                 /\ calls' = Append(calls, "download")
                 /\ pc' = "resolving"
                 /\ UNCHANGED <<download_url, resp, first500>>
    /\ UNCHANGED <<req, url, surl, dresp, prev>>

\* the download-resolution call returns or raises: api.py:116-144, then
\* api.py:70-90 and the handler's return
DownloadReply ==
    /\ pc = "resolving"
    /\ \E dr \in DownloadOutcomes :
         /\ prev.set => dr = prev.dresp
         /\ dresp' = dr
         /\ download_url' = get_download_url(file_data, surl, dr)
         /\ Return(Respond(req.route, get_file_info_result(file_data, get_download_url(file_data, surl, dr))))
    /\ UNCHANGED <<req, url, surl, file_data, calls, lresp, prev>>

\* the exchange is over; the server keeps nothing of it
Reset ==
    /\ pc = "done"
    /\ pc' = "idle"
    /\ req' = [route |-> "download", method |-> "GET", input |-> Ok(NoneV)]
    /\ url' = Unset
    /\ surl' = Unset
    /\ file_data' = Unset
    /\ calls' = <<>>
    /\ lresp' = Unset
    /\ dresp' = Unset
    /\ download_url' = Unset
    /\ resp' = NoResp
    /\ prev' = NoPrev
    /\ UNCHANGED first500

Next == Request \/ Resend \/ ListingReply \/ DownloadReply \/ Reset

Spec == Init /\ [][Next]_vars

----------------------------------------------------------------------------
(* The extractor alone, on every url of at most MaxPieces pieces *)

InitExtract ==
    /\ pc = "received"
    /\ \E ps \in SeqsUpTo(UrlPieces, MaxPieces) :
         /\ url = Str(Concat(ps))
         /\ req = [route |-> "download", method |-> "GET", input |-> Ok(Str(Concat(ps)))]
    /\ surl = Unset
    /\ file_data = Unset
    /\ calls = <<>>
    /\ lresp = Unset
    /\ dresp = Unset
    /\ download_url = Unset
    /\ resp = NoResp
    /\ prev = NoPrev
    /\ first500 = No500

\* surl = self.extract_surl(url), api.py:36
ExtractStep ==
    /\ pc = "received"
    /\ surl' = extract_surl(url).v
    /\ pc' = "extracted"
    /\ UNCHANGED <<req, url, file_data, calls, lresp, dresp, download_url,
                   resp, prev, first500>>

NextExtract == ExtractStep

SpecExtract == InitExtract /\ [][NextExtract]_vars

----------------------------------------------------------------------------
(* Properties *)

\* the request carries no url value: a GET without a url parameter, a POST
\* whose body is absent, unparsable, no object, or an object without a url key
NoUrlSupplied(r) ==
    IF r.method = "GET" THEN r.input.v = NoneV
    ELSE \/ ~r.input.ok
         \/ r.input.v.t # "dict"
         \/ "url" \notin DOMAIN r.input.v.d

\* the url value a request carries
SuppliedUrl(r) ==
    IF NoUrlSupplied(r) THEN NoneV
    ELSE IF r.method = "GET" THEN r.input.v ELSE r.input.v.d["url"]

\* literal lit occurs in s at position i, followed by a token character
Occurs(lit, s, i) ==
    /\ i + Len(lit) <= Len(s)
    /\ SubSeq(s, i, i + Len(lit) - 1) = lit
    /\ TokenChar(s[i + Len(lit)])

\* s contains lit<token>
Contains(lit, s) == \E i \in 1..Len(s) : Occurs(lit, s, i)

\* tok is the token that follows the leftmost lit<token> of s: the longest
\* run of token characters there
IsTokenAfter(lit, s, tok) ==
    \E i \in 1..Len(s) :
        /\ Occurs(lit, s, i)
        /\ \A j \in 1..(i - 1) : ~Occurs(lit, s, j)
        /\ LET from == i + Len(lit)
               n == Len(tok) IN
           /\ n >= 1
           /\ from + n - 1 <= Len(s)
           /\ SubSeq(s, from, from + n - 1) = tok
           /\ \A k \in 1..n : TokenChar(tok[k])
           /\ (from + n <= Len(s) => ~TokenChar(s[from + n]))

\* C1 (as claimed): a request to /api/download or /api/info that supplies no
\* url value is answered HTTP 400 with {success:false, message:"URL parameter
\* is required"}, and no upstream call is issued.
C1_MissingUrlIs400 ==
    (pc = "done" /\ NoUrlSupplied(req)) =>
        /\ resp = UrlRequired
        /\ calls = <<>>

\* C2: a request whose url is a non-empty string in which no pattern matches
\* is answered HTTP 200 with success:false and message "Invalid Terabox URL";
\* HTTP 400 is produced only when the url is missing (absent, null or empty),
\* and then with the message "URL parameter is required".
C2_InvalidUrlIs200 ==
    pc = "done" =>
        LET u == SuppliedUrl(req) IN
        /\ (/\ u.t = "str"
            /\ u.c # <<>>
            /\ \A lit \in {PatS, PatSurl, PatWap} : ~Contains(lit, u.c))
           => /\ resp.status = 200
              /\ resp.body = [success |-> FALSE, message |-> "Invalid Terabox URL"]
        /\ resp.status = 400
           => /\ \/ u.t = "None"
                 \/ (u.t = "str" /\ u.c = <<>>)
                 \/ (u.t = "int" /\ u.n = 0)
              /\ resp.body = [success |-> FALSE, message |-> "URL parameter is required"]

C2_Witness ==
    /\ pc = "done"
    /\ req.route = "info"
    /\ SuppliedUrl(req) = Str(<<"x","/","s","/">>)
    /\ resp.status = 200
    /\ resp.body.message = "Invalid Terabox URL"

MetadataKeys == {"filename", "size", "fs_id", "thumbnail", "category", "isdir"}

\* C3: when the same request is sent to both routes and the upstream answers
\* both alike, a successful /api/info response has no download_url key in
\* data while the /api/download response has one and is otherwise identical;
\* responses with success:false are the same on both routes.
C3_InfoStripsDownloadUrl ==
    (pc = "done" /\ prev.set) =>
        LET i == IF req.route = "info" THEN resp ELSE prev.resp
            d == IF req.route = "info" THEN prev.resp ELSE resp IN
        IF d.body.success \/ i.body.success
        THEN /\ d.body.success /\ i.body.success
             /\ i.status = d.status
             /\ DOMAIN i.body = DOMAIN d.body
             /\ DOMAIN i.body.data = MetadataKeys
             /\ DOMAIN d.body.data = MetadataKeys \cup {"download_url"}
             /\ \A k \in MetadataKeys : i.body.data[k] = d.body.data[k]
        ELSE i = d

C3_Witness ==
    /\ pc = "done"
    /\ prev.set
    /\ req.route = "info"
    /\ prev.req.route = "download"
    /\ prev.resp.body.success
    /\ prev.resp.body.data.download_url = Direct
    /\ resp.body.success

\* C4 (as claimed): an /api/info request issues at most the listing call and
\* never the download-resolution call; an /api/download request issues the
\* listing call first and then at most one download-resolution call.
C4_DownloadCallOnlyOnDownloadRoute ==
    pc # "idle" =>
        IF req.route = "info"
        THEN calls \in {<<>>, <<"listing">>}
        ELSE calls \in {<<>>, <<"listing">>, <<"listing", "download">>}

\* C5 (as claimed): whatever the upstream does, _get_download_url returns a
\* non-empty URL string.
C5_DownloadUrlNeverEmpty ==
    download_url # Unset => (download_url.t = "str" /\ download_url.c # <<>>)

\* C6 (as claimed): every HTTP 500 response has the same body, whatever the
\* text of the exception the handler caught (first500 is the body of the first
\* 500 response served).
C6_ServerErrorIsGeneric ==
    (pc = "done" /\ resp.status = 500) => resp.body = first500.body

\* the listing call returned an HTTP response (it did not raise)
ListingReturned == pc = "done" /\ lresp # Unset /\ lresp.ok

\* the listing response is HTTP 200 with a JSON object as its body
ListingObject ==
    /\ lresp.v.status = 200
    /\ lresp.v.body.k = "json"
    /\ lresp.v.body.v.t = "dict"

\* the listing object carries errno n
ListingErrno(n) ==
    LET o == lresp.v.body.v.d IN
    "errno" \in DOMAIN o /\ o.errno.t = "int" /\ o.errno.n = n

\* field key of list entry e, default when e has none
Field(e, key, default) == IF key \in DOMAIN e.d THEN e.d[key] ELSE default

\* the response is success:true with the metadata of list entry e, and on the
\* download route with the resolved link
BuiltFrom(e) ==
    /\ resp.status = 200
    /\ resp.body.success
    /\ resp.body.data.filename = Field(e, "server_filename", Str(<<"Unknown">>))
    /\ resp.body.data.size = Field(e, "size", Num(0))
    /\ resp.body.data.fs_id = Field(e, "fs_id", NoneV)
    /\ resp.body.data.thumbnail =
         (IF "thumbs" \in DOMAIN e.d
          THEN Field(e.d.thumbs, "url3", Str(<<>>)) ELSE Str(<<>>))
    /\ resp.body.data.category = Field(e, "category", Num(0))
    /\ resp.body.data.isdir = Field(e, "isdir", Num(0))
    /\ req.route = "download" => resp.body.data.download_url = download_url

\* a list entry get_file_info can read: an object whose thumbs, if any, is an object
WellFormed(e) ==
    /\ e.t = "dict"
    /\ "thumbs" \in DOMAIN e.d => e.d.thumbs.t = "dict"

\* the outcome of get_file_info by listing response; with anyEntry, the last
\* case is stated of every non-empty list, otherwise of the lists whose
\* first entry is well formed, the others giving the text of the exception
ListingCases(anyEntry) ==
    ListingReturned =>
        IF lresp.v.status # 200
        THEN resp.body = [success |-> FALSE,
                          message |-> "Failed to fetch data from Terabox"]
        ELSE IF ~ListingObject THEN TRUE
        ELSE LET o == lresp.v.body.v.d IN
             IF "errno" \in DOMAIN o /\ o.errno.t = "int" /\ o.errno.n # 0
             THEN resp.body = [success |-> FALSE,
                               message |-> "Terabox API Error: " \o ToString(o.errno.n)]
             ELSE IF ~ListingErrno(0) \/ "list" \notin DOMAIN o THEN TRUE
             ELSE IF o.list.l = <<>>
             THEN resp.body = [success |-> FALSE,
                               message |-> "No files found in the link"]
             ELSE LET e == o.list.l[1] IN
                  IF anyEntry \/ WellFormed(e) THEN BuiltFrom(e)
                  ELSE /\ resp.status = 200
                       /\ resp.body =
                            [success |-> FALSE,
                             message |-> "Error: " \o
                                NoGetText(IF e.t = "dict" THEN e.d.thumbs ELSE e)]

\* C7 (as claimed): a listing response with status other than 200 gives
\* "Failed to fetch data from Terabox"; status 200 with errno other than 0
\* gives a message carrying that errno; errno 0 with an empty list gives "No
\* files found in the link"; errno 0 with a non-empty list gives success:true
\* with data built from the first list entry only.
C7_ListingOutcome == ListingCases(TRUE)

\* C7 (amended): as C7, except that errno 0 with a non-empty list gives
\* success:true with data built from the first entry only when that entry is
\* an object whose thumbs, if present, is an object; otherwise the result is
\* success:false with the text of the exception.
C7_ListingOutcomeWellFormed == ListingCases(FALSE)

C7_Witness ==
    /\ pc = "done"
    /\ ListingReturned /\ ListingObject /\ ListingErrno(0)
    /\ "list" \in DOMAIN lresp.v.body.v.d
    /\ Len(lresp.v.body.v.d.list.l) = 2
    /\ lresp.v.body.v.d.list.l[1] # lresp.v.body.v.d.list.l[2]
    /\ WellFormed(lresp.v.body.v.d.list.l[2])
    /\ resp.body.success
    /\ resp.body.data.filename = Str(<<"a.mp4">>)

\* the two constructed links, written out
SharingLinkOf(tok) == Str(<<"https://www.terabox.com/sharing/link?surl=">> \o tok.c)
GuessedLinkOf(tok, e) ==
    Str(<<"https://www.terabox.com/share/download?surl=">> \o tok.c
        \o <<"&fid_list=[">>
        \o <<IF "fs_id" \in DOMAIN e.d THEN ToString(e.d.fs_id.n) ELSE "None">>
        \o <<"]">>)

\* the download-resolution response offers a dlink: status 200, a JSON object
\* with errno 0 and a non-empty dlink
OffersDlink(r) ==
    /\ r.status = 200
    /\ r.body.k = "json"
    /\ r.body.v.t = "dict"
    /\ "errno" \in DOMAIN r.body.v.d
    /\ r.body.v.d.errno = Num(0)
    /\ "dlink" \in DOMAIN r.body.v.d
    /\ r.body.v.d.dlink.c # <<>>

\* the three tiers on a download-resolution response r
Tiers(r) ==
    IF r.status \in {301, 302}
    THEN IF "Location" \in DOMAIN r.headers
         THEN download_url = r.headers.Location
         ELSE download_url = Str(<<>>)
    ELSE IF OffersDlink(r) THEN download_url = r.body.v.d.dlink
    ELSE download_url = GuessedLinkOf(surl, file_data)

\* parsing or reading the body of a 200 response raises
BodyRaises(r) ==
    r.status = 200 /\ (r.body.k # "json" \/ r.body.v.t # "dict")

\* C8 (as claimed): 301/302 gives the Location header verbatim; otherwise 200
\* with a JSON body of errno 0 and non-empty dlink gives that dlink; otherwise
\* the constructed fallback; an exception anywhere in the step gives the
\* sharing-link fallback.
C8_ThreeTiers ==
    download_url # Unset =>
        IF \/ file_data.t # "dict"
           \/ ~dresp.ok
           \/ BodyRaises(dresp.v)
        THEN download_url = SharingLinkOf(surl)
        ELSE Tiers(dresp.v)

\* C8 (amended): the three tiers as claimed (the empty string when a 301/302
\* carries no Location header); an exception raised by the call itself or
\* while reading the file record gives the sharing-link fallback, while an
\* exception raised while parsing or reading the body of a 200 response is
\* swallowed and gives the constructed fallback of the third tier.
C8_ThreeTiersBodyErrorsFallThrough ==
    download_url # Unset =>
        IF file_data.t # "dict" \/ ~dresp.ok
        THEN download_url = SharingLinkOf(surl)
        ELSE Tiers(dresp.v)

C8_Witness ==
    /\ pc = "done"
    /\ dresp # Unset
    /\ dresp.ok
    /\ BodyRaises(dresp.v)
    /\ download_url = GuessedLinkOf(surl, file_data)
    /\ "fs_id" \in DOMAIN file_data.d

\* C9: extract_surl returns the token of the first of /s/<token>,
\* surl=<token>, /wap/share/file?surl=<token> that occurs in the url: the
\* /s/ token whenever the url contains /s/<token>, whatever else it contains,
\* and None when no pattern occurs.
C9_FirstPatternWins ==
    pc = "extracted" =>
        LET s == url.c IN
        IF Contains(PatS, s)
        THEN surl.t = "str" /\ IsTokenAfter(PatS, s, surl.c)
        ELSE IF Contains(PatSurl, s)
        THEN surl.t = "str" /\ IsTokenAfter(PatSurl, s, surl.c)
        ELSE IF Contains(PatWap, s)
        THEN surl.t = "str" /\ IsTokenAfter(PatWap, s, surl.c)
        ELSE surl = NoneV

C9_Witness ==
    /\ pc = "extracted"
    /\ url = Str(<<"?","s","u","r","l","=","B","7","/","s","/","a">>)
    /\ surl = Str(<<"a">>)

\* the text of the exception the listing step raises, "" when it raises none
ListingFailure ==
    IF ~lresp.ok THEN lresp.text
    ELSE IF lresp.v.status # 200 THEN ""
    ELSE IF lresp.v.body.k # "json" THEN lresp.v.body.text
    ELSE IF lresp.v.body.v.t = "list" THEN "'list' object has no attribute 'get'"
    ELSE IF lresp.v.body.v.t = "None" THEN "'NoneType' object has no attribute 'get'"
    ELSE IF ListingErrno(0) /\ "list" \in DOMAIN lresp.v.body.v.d
            /\ lresp.v.body.v.d.list.l # <<>>
    THEN LET e == lresp.v.body.v.d.list.l[1] IN
         IF e.t = "str" THEN "'str' object has no attribute 'get'"
         ELSE IF "thumbs" \in DOMAIN e.d /\ e.d.thumbs.t = "None"
         THEN "'NoneType' object has no attribute 'get'"
         ELSE ""
    ELSE ""

\* C10: no failure of the listing call escapes get_file_info: when the call
\* raises, or its body is no JSON or no object, or the first list entry has an
\* unexpected shape, the envelope is success:false with "Error: " and the
\* exception text, and the endpoint answers HTTP 200; a request that supplies
\* a url is never answered HTTP 500.
C10_ListingFailuresAreCaught ==
    pc = "done" =>
        /\ ~NoUrlSupplied(req) => resp.status # 500
        /\ lresp # Unset =>
             /\ resp.status = 200
             /\ ListingFailure # "" =>
                  resp.body = [success |-> FALSE,
                               message |-> "Error: " \o ListingFailure]

C10_Witness ==
    /\ pc = "done"
    /\ lresp # Unset
    /\ ~lresp.ok
    /\ resp.status = 200
    /\ resp.body.message = "Error: " \o lresp.text

====
